---------------------------- MODULE Spec2Model ----------------------------
(***************************************************************************)
(* Task lifecycle of the movie-script agent: the in-memory task store of   *)
(* A2AController, the create route, the background executor                *)
(* (_process_task), cancel_task, the read operations and the SSE emitter   *)
(* (event_stream of send_task_streaming).                                  *)
(*                                                                         *)
(* Scheduling follows asyncio: a coroutine runs without interruption from  *)
(* one suspension point (await that suspends, yield of the generator) to   *)
(* the next, so every action below is one such run.                        *)
(***************************************************************************)
EXTENDS Integers, Sequences, FiniteSets, TLC

(* ------------------------------ bounds -------------------------------- *)

\* number of task ids the store can hold in a run of the model
MaxTasks == 3

\* number of tasks created in a run of Spec
MaxCreates == 2

TaskIds == 1..MaxTasks

\* the clock of the model stops at MaxTime seconds and advances by
\* TickSeconds at a time
MaxTime == 32
TickSeconds == 8

(* --------------------------- value encoding --------------------------- *)

\* Python Optional: None is the empty tuple, a present value v is <<v>>
None == <<>>
Some(v) == <<v>>

\* Python truthiness (`not x`) of an Optional[str]: None and "" are falsy
TruthyStr(x) == x # None /\ x[1] # ""

\* Python truthiness of an Optional[list]: None and [] are falsy
TruthyList(x) == x # None /\ Len(x[1]) > 0

\* TaskState (src/models/task.py)
SUBMITTED == "submitted"
WORKING == "working"
COMPLETED == "completed"
FAILED == "failed"
CANCELLED == "cancelled"

TaskState == {SUBMITTED, WORKING, COMPLETED, FAILED, CANCELLED}

\* the states cancel_task refuses to leave
Finished == {COMPLETED, FAILED, CANCELLED}

(* ------------------------------ inputs -------------------------------- *)

TitleInputs == {None, Some(""), Some("T")}
TagsInputs == {None, Some(<<>>), Some(<<"a">>)}
IdeaInputs == {None, Some(""), Some("I")}
SessionInputs == {None, Some(""), Some("s1")}
\* metadata.duration as it arrives in the JSON body: absent, an integer, or
\* a value that is no integer
DurationInputs == {"none", "int", "nonint"}

\* a request as the /tasks/send route receives it
WellFormedRequests ==
    [title : {Some("T")}, tags : {Some(<<"a">>)}, idea : {Some("I")},
     sessionId : SessionInputs, duration : {"int"}]

\* the requests of the model: the well-formed ones, and each of them with
\* one field replaced by any value that field can take
Requests ==
    UNION {
        {[r EXCEPT !.title = x] : x \in TitleInputs}
        \cup {[r EXCEPT !.tags = x] : x \in TagsInputs}
        \cup {[r EXCEPT !.idea = x] : x \in IdeaInputs}
        \cup {[r EXCEPT !.duration = x] : x \in DurationInputs}
        : r \in WellFormedRequests }

\* what the awaited engine call hands back to the executor
EngineResults == {"script", "empty", "malformed", "raised"}

(* ------------------------------- state -------------------------------- *)

VARIABLES
    tasks,          \* A2AController.tasks: id -> Task
    execs,          \* per task, where its _process_task coroutine stands
    response,       \* the last response of a synchronous call
    cancelAccepted, \* ids for which cancel_task has returned the task
    now,            \* time.time(), in seconds
    sub,            \* the locals and position of one event_stream generator
    events,         \* the events that generator has yielded, in order
    push_configs,   \* A2AController.push_configs: id -> PushNotificationConfig
    task_params,    \* the argument of a TaskProcessor.create_task call
    created,        \* what that call returned or raised
    sessions,       \* SessionManager.sessions: session id -> Session
    expired_sessions, \* what the last _cleanup_expired_sessions deleted
    utcnow,         \* datetime.utcnow(), in minutes
    _tasks,         \* TaskProcessor._tasks: id -> Task
    _task_updates,  \* TaskProcessor._task_updates: id -> asyncio.Queue
    _push_configs,  \* TaskProcessor._push_configs: id -> PushNotificationConfig
    _active_sessions, \* TaskProcessor._active_sessions: session id -> dict
    posts,          \* the client.post calls of _notify_update, in order
    raised,         \* how the last call of a TaskProcessor method ended
    updates,        \* the position of one get_task_updates generator
    yielded,        \* what that generator has yielded, in order
    attempts,       \* per task, the calls of generate_script tenacity has made
    subscribers     \* per consumer, its get_task_updates generator

vars ==
    <<tasks, execs, response, cancelAccepted, now, sub, events, push_configs,
      task_params, created, sessions, expired_sessions, utcnow, _tasks,
      _task_updates, _push_configs, _active_sessions, posts, raised, updates,
      yielded, attempts, subscribers>>

\* the variables of the SSE emitter
streamVars == <<now, sub, events>>

\* the push-notification registry of the controller
pushVars == <<push_configs>>

\* one call of TaskProcessor.create_task
processorVars == <<task_params, created>>

\* the SessionManager and its clock
sessionVars == <<sessions, expired_sessions, utcnow>>

\* the stores of a TaskProcessor, its outbound posts and its callers
taskProcessorVars ==
    <<_tasks, _task_updates, _push_configs, _active_sessions, posts, raised,
      updates, yielded>>

\* the retry state of the engine calls
engineVars == <<attempts>>

\* the get_task_updates generators of concurrent consumers
subscriberVars == <<subscribers>>

\* what the task store, its executors and the SSE emitter leave alone
auxVars ==
    <<pushVars, processorVars, sessionVars, taskProcessorVars, engineVars,
      subscriberVars>>

NoResponse == [op |-> "none", code |-> 0, id |-> 0, state |-> "none"]

\* no subscription was opened
NoSub ==
    [pc |-> "none", id |-> 0, last_state |-> "none",
     sent_final_update |-> FALSE, last_activity |-> 0, current_time |-> 0]

\* no TaskProcessor.create_task call was made
NoParams == [kind |-> "none", modes |-> <<>>]
NoResult == [outcome |-> "none", mode |-> "none", stored |-> FALSE]

\* no TaskProcessor method was called
NoCall == [op |-> "none", id |-> 0, error |-> "none", result |-> <<>>]

\* no get_task_updates generator was made
NoUpdates == [pc |-> "none", id |-> 0, error |-> "none"]

\* the concurrent consumers of task updates, and one that has not started
Subscribers == {"a", "b"}
NoSubscriber == [pc |-> "none", id |-> 0, error |-> "none", yielded |-> <<>>]

Init ==
    /\ tasks = <<>>
    /\ execs = <<>>
    /\ response = NoResponse
    /\ cancelAccepted = {}
    /\ now = 0
    /\ sub = NoSub
    /\ events = <<>>
    /\ push_configs = <<>>
    /\ task_params = NoParams
    /\ created = NoResult
    /\ sessions = <<>>
    /\ expired_sessions = {}
    /\ utcnow = 0
    /\ _tasks = <<>>
    /\ _task_updates = <<>>
    /\ _push_configs = <<>>
    /\ _active_sessions = <<>>
    /\ posts = <<>>
    /\ raised = NoCall
    /\ updates = NoUpdates
    /\ yielded = <<>>
    /\ attempts = [t \in TaskIds |-> 0]
    /\ subscribers = [s \in Subscribers |-> NoSubscriber]

Stored == DOMAIN tasks

(* --------------------------- create (route) --------------------------- *)

\* uuid4(): an identifier no stored task has
NewTaskId == CHOOSE i \in TaskIds \ Stored : \A j \in TaskIds \ Stored : i <= j

\* the check of the /tasks/send route on metadata.title, tags and idea
MissingParams(req) ==
    ~TruthyStr(req.title) \/ ~TruthyList(req.tags) \/ ~TruthyStr(req.idea)

\* TaskRequest(...): pydantic accepts duration: Optional[int] only
TaskRequestValid(req) == req.duration \in {"none", "int"}

\* the Task built by send_task
NewTask(id, req) ==
    [id |-> id,
     sessionId |-> req.sessionId,
     state |-> SUBMITTED,
     message |-> <<"Starting script generation...">>,
     artifacts |-> <<>>,
     title |-> req.title[1]]

\* send_task running the first step of _process_task itself instead of
\* scheduling it
send_task_eager(req) ==
    /\ TaskIds \ Stored # {}
    /\ LET id == NewTaskId IN
        /\ tasks' = (id :> [NewTask(id, req) EXCEPT !.state = WORKING]) @@ tasks
        /\ execs' = (id :> "engine") @@ execs
        /\ response' = [op |-> "create", code |-> 200, id |-> id,
                        state |-> WORKING]
    /\ UNCHANGED cancelAccepted

\* A2AController.send_task: build the Task, store it, then build the
\* TaskRequest and schedule _process_task with asyncio.create_task; nothing
\* in it suspends.  A TaskRequest that does not validate raises after the
\* task was stored, and no executor is scheduled.
send_task(req) ==
    /\ TaskIds \ Stored # {}
    /\ LET id == NewTaskId IN
        /\ tasks' = (id :> NewTask(id, req)) @@ tasks
        /\ IF TaskRequestValid(req)
           THEN /\ execs' = (id :> "scheduled") @@ execs
                /\ response' = [op |-> "create", code |-> 200, id |-> id,
                                state |-> SUBMITTED]
           ELSE /\ execs' = (id :> "unscheduled") @@ execs
                /\ response' = [op |-> "create", code |-> 500, id |-> 0,
                                state |-> "none"]
    /\ UNCHANGED cancelAccepted

\* create_task checking the title only
create_task_title_only(req) ==
    /\ IF ~TruthyStr(req.title)
       THEN /\ response' = [op |-> "create", code |-> 400, id |-> 0,
                            state |-> "none"]
            /\ UNCHANGED <<tasks, execs, cancelAccepted>>
       ELSE send_task(req)
    /\ UNCHANGED <<streamVars, auxVars>>

\* POST /tasks/send (api/routes.py create_task): reject a request without
\* title, tags or idea with 400, else call send_task
create_task(req) ==
    /\ IF MissingParams(req)
       THEN /\ response' = [op |-> "create", code |-> 400, id |-> 0,
                            state |-> "none"]
            /\ UNCHANGED <<tasks, execs, cancelAccepted>>
       ELSE send_task(req)
    /\ UNCHANGED <<streamVars, auxVars>>

(* ------------------------ background executor ------------------------- *)

\* the status write of a coroutine: task.status = TaskStatus(state, message)
SetStatus(t, state, message) ==
    [tasks EXCEPT ![t].state = state, ![t].message = message]

\* process_task_start calling generate_script on the event loop: the
\* coroutine runs to its end without suspending
process_task_start_blocking(t) ==
    /\ t \in Stored
    /\ execs[t] = "scheduled"
    /\ \E result \in EngineResults :
          tasks' = IF result = "script"
                   THEN SetStatus(t, COMPLETED, <<"Successfully generated script">>)
                   ELSE SetStatus(t, FAILED, <<"Failed to generate script">>)
    /\ execs' = [execs EXCEPT ![t] = "done"]
    /\ UNCHANGED <<response, cancelAccepted, streamVars, auxVars>>

\* _process_task up to `await asyncio.to_thread(generate_script)`: write
\* Working and start the engine call
process_task_start(t) ==
    /\ t \in Stored
    /\ execs[t] = "scheduled"
    /\ tasks' = SetStatus(t, WORKING, <<"Generating movie script...">>)
    /\ execs' = [execs EXCEPT ![t] = "engine"]
    /\ UNCHANGED <<response, cancelAccepted, streamVars, auxVars>>

\* str(e) of what the engine call or the mapping of its result raised
ErrorText(result) ==
    CASE result = "empty" -> "Failed to generate script - empty result"
      [] result = "malformed" -> "'scenes'"
      [] result = "raised" -> "RetryError"

\* CompleteTask with the status written but the artifact not attached
CompleteTaskWithoutArtifact(t) ==
    [tasks EXCEPT
        ![t].state = COMPLETED,
        ![t].message = <<"Successfully generated script for '", tasks[t].title, "'">>]

\* CompleteTask with an artifact named "script"
CompleteTaskNamedScript(t) ==
    [tasks EXCEPT
        ![t].artifacts = <<"script">>,
        ![t].state = COMPLETED,
        ![t].message = <<"Successfully generated script for '", tasks[t].title, "'">>]

\* the success branch of _process_task: attach the artifact
\* (create_script_artifact names it metadata.title), then write Completed
CompleteTask(t) ==
    [tasks EXCEPT
        ![t].artifacts = <<tasks[t].title>>,
        ![t].state = COMPLETED,
        ![t].message = <<"Successfully generated script for '", tasks[t].title, "'">>]

\* FailTask with a message that leaves out str(e)
FailTaskWithoutText(t, result) ==
    SetStatus(t, FAILED, <<"Failed to generate script">>)

\* the inner except branch of _process_task: write Failed with the error
FailTask(t, result) ==
    SetStatus(t, FAILED, <<"Failed to generate script: ", ErrorText(result)>>)

\* process_task_resume with an except branch that only logs
process_task_resume_drop_failure(t, result) ==
    /\ t \in Stored
    /\ execs[t] = "engine"
    /\ tasks' = IF result = "script" THEN CompleteTask(t) ELSE tasks
    /\ execs' = [execs EXCEPT ![t] = "done"]
    /\ UNCHANGED <<response, cancelAccepted, streamVars, auxVars>>

\* process_task_resume with the artifact attached before the result is
\* checked and mapped
process_task_resume_artifact_first(t, result) ==
    /\ t \in Stored
    /\ execs[t] = "engine"
    /\ tasks' = IF result = "script" THEN CompleteTask(t)
                ELSE [FailTask(t, result) EXCEPT ![t].artifacts = <<tasks[t].title>>]
    /\ execs' = [execs EXCEPT ![t] = "done"]
    /\ UNCHANGED <<response, cancelAccepted, streamVars, auxVars>>

\* _process_task from the return of the awaited engine call to its end
process_task_resume(t, result) ==
    /\ t \in Stored
    /\ execs[t] = "engine"
    /\ tasks' = IF result = "script" THEN CompleteTask(t) ELSE FailTask(t, result)
    /\ execs' = [execs EXCEPT ![t] = "done"]
    /\ UNCHANGED <<response, cancelAccepted, streamVars, auxVars>>

\* how the logger.log_script_generation call that follows the status write
\* of the inner try block or of its except branch ends
LogOutcomes == {"logged", "raised"}

\* str(e) of what a logging call raised
LogErrorText == "logging failed"

\* _process_task from the return of the awaited engine call to its end, with
\* the outcome of the logging call as an input.  The completion logging
\* (lines 194-198) stands inside the inner try block, so what it raises is
\* caught by `except Exception` at line 200, which writes Failed over the
\* Completed status and leaves the artifact attached; what the error logging
\* of that branch (lines 214-221) raises is caught by the outer except at
\* line 223, which writes Failed again with its own message.
process_task_resume_logging(t, result, log) ==
    /\ t \in Stored
    /\ execs[t] = "engine"
    /\ tasks' =
          IF result = "script"
          THEN IF log = "logged"
               THEN CompleteTask(t)
               ELSE [CompleteTask(t) EXCEPT
                        ![t].state = FAILED,
                        ![t].message = <<"Failed to generate script: ", LogErrorText>>]
          ELSE IF log = "logged"
               THEN FailTask(t, result)
               ELSE SetStatus(t, FAILED, <<"Task processing failed: ", LogErrorText>>)
    /\ execs' = [execs EXCEPT ![t] = "done"]
    /\ UNCHANGED <<response, cancelAccepted, streamVars, auxVars>>

(* ---------------------- engine call with retries ---------------------- *)

\* @retry(stop=stop_after_attempt(3)) on MovieScriptGenerator.generate_script
max_attempt_number == 3

\* a stop condition that never holds
never_stop(attempt_number) == FALSE

\* tenacity's stop_after_attempt: stop once the call just made was the
\* max_attempt_number-th
stop(attempt_number) == attempt_number >= max_attempt_number

\* where an executor stands once asyncio.to_thread has an outcome for it:
\* the value generate_script returned, or the RetryError tenacity raised
Returned(result) ==
    CASE result = "script" -> "returned script"
      [] result = "empty" -> "returned empty"
      [] result = "malformed" -> "returned malformed"
      [] result = "raised" -> "raised RetryError"

ResultOf(pc) == CHOOSE result \in EngineResults : Returned(result) = pc

\* how one call of the body of generate_script ends: it returns its
\* script_result, a dict of seven keys that is never empty and whose scenes
\* may or may not map to ExtractedScene, or it raises
AttemptOutcomes == {"script", "malformed", "raised"}

\* one call of the body of generate_script in the worker thread, made by
\* tenacity's retry loop: a value it returns ends the loop; when it raises,
\* the loop stops with RetryError if stop holds and calls it again otherwise
generate_script_attempt(t, outcome) ==
    /\ t \in Stored
    /\ execs[t] = "engine"
    /\ LET attempt_number == attempts[t] + 1 IN
          /\ attempts' = [attempts EXCEPT ![t] = attempt_number]
          /\ execs' = [execs EXCEPT ![t] =
                IF outcome # "raised" THEN Returned(outcome)
                ELSE IF stop(attempt_number) THEN Returned("raised")
                ELSE "engine"]
    /\ UNCHANGED <<tasks, response, cancelAccepted, streamVars, pushVars,
                   processorVars, sessionVars, taskProcessorVars,
                   subscriberVars>>

\* _process_task from the return of `await asyncio.to_thread(...)`, whose
\* outcome the worker thread has left, to its end
process_task_resume_returned(t) ==
    /\ t \in Stored
    /\ execs[t] \in {Returned(result) : result \in EngineResults}
    /\ LET result == ResultOf(execs[t]) IN
          tasks' = IF result = "script" THEN CompleteTask(t)
                   ELSE FailTask(t, result)
    /\ execs' = [execs EXCEPT ![t] = "done"]
    /\ UNCHANGED <<response, cancelAccepted, streamVars, auxVars>>

(* ------------------------------- cancel ------------------------------- *)

\* AlreadyFinished without CANCELLED in the list of the guard
FinishedUnlessCancelled(t) == tasks[t].state \in {COMPLETED, FAILED}

\* the guard of cancel_task: 400 for a task that already finished
AlreadyFinished(t) == tasks[t].state \in Finished

\* A2AController.cancel_task
cancel_task(id) ==
    /\ IF id \notin Stored
       THEN /\ response' = [op |-> "cancel", code |-> 404, id |-> id,
                            state |-> "none"]
            /\ UNCHANGED <<tasks, cancelAccepted>>
       ELSE IF AlreadyFinished(id)
       THEN /\ response' = [op |-> "cancel", code |-> 400, id |-> id,
                            state |-> "none"]
            /\ UNCHANGED <<tasks, cancelAccepted>>
       ELSE /\ tasks' = SetStatus(id, CANCELLED, <<"Task cancelled by user request">>)
            /\ response' = [op |-> "cancel", code |-> 200, id |-> id,
                            state |-> CANCELLED]
            /\ cancelAccepted' = cancelAccepted \cup {id}
    /\ UNCHANGED <<execs, streamVars, auxVars>>

(* -------------------------------- reads ------------------------------- *)

\* A2AController.get_task
get_task(id) ==
    IF id \notin Stored
    THEN [code |-> 404, task |-> None]
    ELSE [code |-> 200, task |-> Some(tasks[id])]

\* list(self.tasks.values()): the tasks in insertion order
TaskValues == [i \in 1..Cardinality(Stored) |-> tasks[i]]

\* A2AController.list_tasks: each filter applies only when its argument is
\* truthy
list_tasks(session_id, state) ==
    LET bySession(t) == t.sessionId = session_id
        byState(t) == Some(t.state) = state
        l1 == IF TruthyStr(session_id)
              THEN SelectSeq(TaskValues, bySession) ELSE TaskValues
    IN  IF TruthyStr(state) THEN SelectSeq(l1, byState) ELSE l1

\* GET /tasks/{task_id}: the route logs and answers what get_task returns
GetTask(id) ==
    /\ response' = [op |-> "get", code |-> get_task(id).code, id |-> id,
                    state |-> IF get_task(id).code = 200
                              THEN get_task(id).task[1].state ELSE "none"]
    /\ UNCHANGED <<tasks, execs, cancelAccepted, streamVars, auxVars>>

(* ------------------------- push notifications ------------------------- *)

\* the PushNotificationConfig bodies a client posts
ConfigInputs ==
    {[url |-> "https://a/hook", events |-> <<"status">>],
     [url |-> "https://b/hook", events |-> <<"status", "artifact">>]}

\* set_push_notification without the check that the task is stored
set_push_notification_unchecked(id, config) ==
    /\ push_configs' = (id :> config) @@ push_configs
    /\ response' = [op |-> "set_push", code |-> 200, id |-> id,
                    state |-> "none", config |-> Some(config)]
    /\ UNCHANGED <<tasks, execs, cancelAccepted, streamVars, engineVars,
                   subscriberVars,
                   processorVars,
                   sessionVars, taskProcessorVars>>

\* set_push_notification keeping the config a task already has
set_push_notification_keep_first(id, config) ==
    /\ IF id \notin Stored
       THEN /\ response' = [op |-> "set_push", code |-> 404, id |-> id,
                            state |-> "none", config |-> None]
            /\ UNCHANGED push_configs
       ELSE /\ push_configs' = push_configs @@ (id :> config)
            /\ response' = [op |-> "set_push", code |-> 200, id |-> id,
                            state |-> "none", config |-> Some(config)]
    /\ UNCHANGED <<tasks, execs, cancelAccepted, streamVars, engineVars,
                   subscriberVars,
                   processorVars,
                   sessionVars, taskProcessorVars>>

\* A2AController.set_push_notification (POST /tasks/{task_id}/pushNotification):
\* 404 for an id that is not stored, else self.push_configs[task_id] = config
set_push_notification(id, config) ==
    /\ IF id \notin Stored
       THEN /\ response' = [op |-> "set_push", code |-> 404, id |-> id,
                            state |-> "none", config |-> None]
            /\ UNCHANGED push_configs
       ELSE /\ push_configs' = (id :> config) @@ push_configs
            /\ response' = [op |-> "set_push", code |-> 200, id |-> id,
                            state |-> "none", config |-> Some(config)]
    /\ UNCHANGED <<tasks, execs, cancelAccepted, streamVars, engineVars,
                   subscriberVars,
                   processorVars,
                   sessionVars, taskProcessorVars>>

\* A2AController.get_push_notification: 404 for an id that is not stored and
\* for a task without an entry in push_configs (a stored config is a
\* pydantic model and so truthy)
get_push_notification(id) ==
    IF id \notin Stored
    THEN [code |-> 404, config |-> None]
    ELSE IF id \notin DOMAIN push_configs
    THEN [code |-> 404, config |-> None]
    ELSE [code |-> 200, config |-> Some(push_configs[id])]

\* GET /tasks/{task_id}/pushNotification: the route answers what
\* get_push_notification returns
GetPushNotification(id) ==
    /\ response' = [op |-> "get_push", code |-> get_push_notification(id).code,
                    id |-> id, state |-> "none",
                    config |-> get_push_notification(id).config]
    /\ UNCHANGED <<tasks, execs, cancelAccepted, streamVars, auxVars>>

(* ---------------------- TaskProcessor.create_task --------------------- *)

\* the longest acceptedOutputModes list a caller sends
MaxModes == 3

\* the mode names callers ask for: "xml" is in no list of supported modes
ModeInputs == {"text", "html", "json", "xml"}

\* the lists of at most MaxModes mode names
ModeLists == UNION {[1..n -> ModeInputs] : n \in 0..MaxModes}

\* the arguments of create_task: a dict without the key acceptedOutputModes,
\* a dict with it, or a Task object
ParamsInputs ==
    {[kind |-> "dict", modes |-> None], [kind |-> "task", modes |-> None]}
    \cup {[kind |-> "dict", modes |-> Some(l)] : l \in ModeLists}

\* TaskProcessor.SUPPORTED_MODES.keys()
SUPPORTED_MODES == {"text", "markdown", "html", "json"}

\* valid_modes of TaskSendParams.validate_output_modes
valid_modes == {"text", "markdown", "html", "json"}

\* TaskSendParams.validate_output_modes: an empty list becomes ["text"], a
\* list with a mode outside valid_modes is refused, any other list is kept
validate_output_modes(v) ==
    IF Len(v) = 0
    THEN [ok |-> TRUE, value |-> <<"text">>]
    ELSE IF \E i \in 1..Len(v) : v[i] \notin valid_modes
    THEN [ok |-> FALSE, value |-> <<>>]
    ELSE [ok |-> TRUE, value |-> v]

\* TaskSendParams(**task_params): the default of acceptedOutputModes is
\* ["text"] and is not validated; a given list goes through the validator
TaskSendParams(params) ==
    IF params.modes = None
    THEN [ok |-> TRUE, acceptedOutputModes |-> <<"text">>]
    ELSE LET v == validate_output_modes(params.modes[1]) IN
         [ok |-> v.ok, acceptedOutputModes |-> v.value]

\* the fields of the Task model that task_processor.py imports
\* (models/task.py); the model allows no other attribute
TaskFields == {"id", "sessionId", "status", "artifacts", "metadata"}

\* hasattr(task, name), and whether `task.name = value` is accepted
HasField(name) == name \in TaskFields

\* lines 148-157 of create_task: ValueError when no accepted mode is
\* supported, else the first accepted mode that is supported
NegotiateOutputMode(accepted) ==
    LET supported == {i \in 1..Len(accepted) : accepted[i] \in SUPPORTED_MODES} IN
    IF supported = {}
    THEN [outcome |-> "ValueError", mode |-> "none", stored |-> FALSE]
    ELSE [outcome |-> "ok",
          mode |-> accepted[CHOOSE i \in supported : \A j \in supported : i <= j],
          stored |-> TRUE]

\* what TaskProcessor.create_task(params) returns or raises.  A Task object
\* has no attribute acceptedOutputModes, so the code sets it and the model
\* class refuses the assignment; a dict is validated by TaskSendParams, and
\* Task.from_params copies id, sessionId, status and metadata only, so the
\* read of task.acceptedOutputModes raises.
CreateTaskResult(params) ==
    IF params.kind = "task"
    THEN IF HasField("acceptedOutputModes")
         THEN NegotiateOutputMode(<<"text">>)
         ELSE [outcome |-> "ValueError", mode |-> "none", stored |-> FALSE]
    ELSE LET p == TaskSendParams(params) IN
         IF ~p.ok
         THEN [outcome |-> "ValidationError", mode |-> "none", stored |-> FALSE]
         ELSE IF HasField("acceptedOutputModes")
         THEN NegotiateOutputMode(p.acceptedOutputModes)
         ELSE [outcome |-> "AttributeError", mode |-> "none", stored |-> FALSE]

\* one call of TaskProcessor.create_task with the argument task_params
TaskProcessor_create_task ==
    /\ created = NoResult
    /\ created' = CreateTaskResult(task_params)
    /\ UNCHANGED <<tasks, execs, response, cancelAccepted, streamVars, engineVars,
                   subscriberVars,
                   pushVars,
                   task_params, sessionVars, taskProcessorVars>>

(* --------------------- TaskProcessor: stored tasks -------------------- *)

\* the members of the TaskState enum that task_processor.py imports
\* (models/task.py)
TaskStateMembers ==
    {"SUBMITTED", "WORKING", "COMPLETED", "FAILED", "CANCELLED", "INPUT_REQUIRED"}

\* whether TaskState.<name> evaluates (it raises AttributeError otherwise)
HasMember(name) == name \in TaskStateMembers

\* the states and session ids of the Task objects the callers of a
\* TaskProcessor store in it
StoredStateInputs == {SUBMITTED, WORKING, COMPLETED}
StoredSessionInputs == {None, Some("s1"), Some("s2")}

\* str(uuid.uuid4()) of create_test_task: an id the processor does not hold
NewProcessorId ==
    CHOOSE i \in TaskIds \ DOMAIN _tasks : \A j \in TaskIds \ DOMAIN _tasks : i <= j

\* a caller stores a Task of models/task.py under its id and gives it an
\* update queue, the way every caller in the repository does
\* (`processor._tasks[task.id] = task`,
\* `processor._task_updates[task.id] = asyncio.Queue()`): create_task
\* itself never gets as far as storing one
StoreTask(sessionId, state) ==
    /\ Cardinality(DOMAIN _tasks) < MaxCreates
    /\ LET id == NewProcessorId IN
        /\ _tasks' = (id :> [id |-> id, sessionId |-> sessionId, state |-> state,
                             message |-> <<"Generate a test script">>,
                             artifacts |-> <<>>]) @@ _tasks
        /\ _task_updates' = (id :> <<>>) @@ _task_updates
    /\ UNCHANGED <<tasks, execs, response, cancelAccepted, streamVars, engineVars,
                   subscriberVars,
                   pushVars,
                   processorVars, sessionVars, _push_configs, _active_sessions,
                   posts, raised, updates, yielded>>

\* task.history of the task stored as `store[id]`: the list, or None where
\* the read raises AttributeError because the Task model has no such field
history(store, id) ==
    IF HasField("history") THEN Some(store[id].history) ELSE None

\* TaskProcessor.set_push_notification: ValueError for an id that is not
\* held, else self._push_configs[task_id] = config
TaskProcessor_set_push_notification(id, config) ==
    /\ IF id \notin DOMAIN _tasks
       THEN /\ raised' = [op |-> "set_push_notification", id |-> id,
                          error |-> "ValueError", result |-> <<>>]
            /\ UNCHANGED _push_configs
       ELSE /\ raised' = [op |-> "set_push_notification", id |-> id,
                          error |-> "none", result |-> <<>>]
            /\ _push_configs' = (id :> config) @@ _push_configs
    /\ UNCHANGED <<tasks, execs, response, cancelAccepted, streamVars, engineVars,
                   subscriberVars,
                   pushVars,
                   processorVars, sessionVars, _tasks, _task_updates,
                   _active_sessions, posts, updates, yielded>>

\* TaskProcessor._notify_update(task) for the task stored as `store[id]`:
\* put the task on its update queue when it has one and, when a push config
\* is registered for the id, post it once to the url of the config; a post
\* that fails is printed and dropped
notify_update(store, id) ==
    /\ _task_updates' =
          IF id \in DOMAIN _task_updates
          THEN [_task_updates EXCEPT ![id] = Append(@, store[id])]
          ELSE _task_updates
    /\ IF id \in DOMAIN _push_configs
       THEN \E ok \in BOOLEAN :
               posts' = Append(posts, [id |-> id, url |-> _push_configs[id].url,
                                       ok |-> ok])
       ELSE UNCHANGED posts

\* TaskProcessor.cancel_task: ValueError for an id that is not held.  For a
\* held task the argument TaskState.CANCELED of _create_status_update is
\* evaluated first, and the enum has no such member; past it the status is
\* assigned, then task.history is read, which the Task model does not have
TaskProcessor_cancel_task(id) ==
    /\ IF id \notin DOMAIN _tasks
       THEN /\ raised' = [op |-> "cancel_task", id |-> id,
                          error |-> "ValueError", result |-> <<>>]
            /\ UNCHANGED <<_tasks, _task_updates, posts>>
       ELSE IF ~HasMember("CANCELED")
       THEN /\ raised' = [op |-> "cancel_task", id |-> id,
                          error |-> "AttributeError", result |-> <<>>]
            /\ UNCHANGED <<_tasks, _task_updates, posts>>
       ELSE LET store == [_tasks EXCEPT
                             ![id].state = "canceled",
                             ![id].message = <<"Task canceled by user request">>]
            IN  /\ _tasks' = store
                /\ IF ~HasField("history")
                   THEN /\ raised' = [op |-> "cancel_task", id |-> id,
                                      error |-> "AttributeError", result |-> <<>>]
                        /\ UNCHANGED <<_task_updates, posts>>
                   ELSE /\ raised' = [op |-> "cancel_task", id |-> id,
                                      error |-> "none", result |-> <<id>>]
                        /\ notify_update(store, id)
    /\ UNCHANGED <<tasks, execs, response, cancelAccepted, streamVars, engineVars,
                   subscriberVars,
                   pushVars,
                   processorVars, sessionVars, _push_configs, _active_sessions,
                   updates, yielded>>

\* TaskProcessor.process_task_async: return for an id that is not held.  For
\* a held task `task.acceptedOutputModes[0]` is read before the try block,
\* and the Task model has no such attribute, so the coroutine ends there with
\* AttributeError; past it the Working status is written, task.history is
\* read inside the try block and the except branch writes Failed and reads
\* task.history again
process_task_async(id) ==
    /\ IF id \notin DOMAIN _tasks
       THEN /\ raised' = [op |-> "process_task_async", id |-> id,
                          error |-> "none", result |-> <<>>]
            /\ UNCHANGED <<_tasks, _task_updates, posts>>
       ELSE IF ~HasField("acceptedOutputModes")
       THEN /\ raised' = [op |-> "process_task_async", id |-> id,
                          error |-> "AttributeError", result |-> <<>>]
            /\ UNCHANGED <<_tasks, _task_updates, posts>>
       ELSE IF ~HasField("history")
       THEN /\ _tasks' = [_tasks EXCEPT
                             ![id].state = FAILED,
                             ![id].message = <<"Error during processing: ",
                                               "history">>]
            /\ raised' = [op |-> "process_task_async", id |-> id,
                          error |-> "AttributeError", result |-> <<>>]
            /\ UNCHANGED <<_task_updates, posts>>
       ELSE LET store == [_tasks EXCEPT
                             ![id].state = WORKING,
                             ![id].message = <<"Processing your request...">>]
            IN  /\ _tasks' = store
                /\ raised' = [op |-> "process_task_async", id |-> id,
                              error |-> "none", result |-> <<>>]
                /\ notify_update(store, id)
    /\ UNCHANGED <<tasks, execs, response, cancelAccepted, streamVars, engineVars,
                   subscriberVars,
                   pushVars,
                   processorVars, sessionVars, _push_configs, _active_sessions,
                   updates, yielded>>

\* `output_mode = task.acceptedOutputModes[0]` (line 218) for a task whose
\* requested list is `accepted`: the first requested mode, supported or not,
\* where the Task model has the attribute, and AttributeError where not
ExecutorOutputMode(accepted) ==
    IF ~HasField("acceptedOutputModes")
    THEN [outcome |-> "AttributeError", mode |-> "none"]
    ELSE [outcome |-> "ok", mode |-> accepted[1]]

(* ----------------- TaskProcessor.get_task_updates ------------------- *)

\* the longest update queue of a task in a run of the model
MaxUpdates == 2

\* the states of the updates callers put on a queue
UpdateStateInputs == {WORKING, COMPLETED, CANCELLED}

\* a caller puts a copy of a held task, with a state of its choice, on the
\* update queue of the task (`await processor._task_updates[id].put(update)`)
PutUpdate(id, state) ==
    /\ id \in DOMAIN _task_updates
    /\ Len(_task_updates[id]) < MaxUpdates
    /\ _task_updates' =
          [_task_updates EXCEPT ![id] = Append(@, [_tasks[id] EXCEPT !.state = state])]
    /\ UNCHANGED <<tasks, execs, response, cancelAccepted, streamVars, engineVars,
                   subscriberVars,
                   pushVars,
                   processorVars, sessionVars, _tasks, _push_configs,
                   _active_sessions, posts, raised, updates, yielded>>

\* get_task_updates(task_id) and the first step of the generator it returns:
\* ValueError for an id without an update queue, else on to `queue.get()`
get_task_updates(id) ==
    /\ updates.pc = "none"
    /\ updates' = IF id \notin DOMAIN _task_updates
                  THEN [pc |-> "raised", id |-> id, error |-> "ValueError"]
                  ELSE [pc |-> "get", id |-> id, error |-> "none"]
    /\ UNCHANGED <<tasks, execs, response, cancelAccepted, streamVars, engineVars,
                   subscriberVars,
                   pushVars,
                   processorVars, sessionVars, _tasks, _task_updates,
                   _push_configs, _active_sessions, posts, raised, yielded>>

\* `update = await queue.get()` returns the oldest queued update and the
\* generator yields it
updates_get ==
    /\ updates.pc = "get"
    /\ _task_updates[updates.id] # <<>>
    /\ yielded' = Append(yielded, Head(_task_updates[updates.id]))
    /\ _task_updates' = [_task_updates EXCEPT ![updates.id] = Tail(@)]
    /\ updates' = [updates EXCEPT !.pc = "yield"]
    /\ UNCHANGED <<tasks, execs, response, cancelAccepted, streamVars, engineVars,
                   subscriberVars,
                   pushVars,
                   processorVars, sessionVars, _tasks, _push_configs,
                   _active_sessions, posts, raised>>

\* the consumer asks for the next update: the generator resumes after its
\* yield and builds the list [COMPLETED, FAILED, TaskState.CANCELED], which
\* raises AttributeError for want of that member (only CancelledError is
\* caught); with the member it breaks after an update in one of these states
\* and otherwise goes back to `queue.get()`
updates_resume ==
    /\ updates.pc = "yield"
    /\ updates' =
          IF ~HasMember("CANCELED")
          THEN [updates EXCEPT !.pc = "raised", !.error = "AttributeError"]
          ELSE IF yielded[Len(yielded)].state \in {COMPLETED, FAILED, "canceled"}
          THEN [updates EXCEPT !.pc = "closed"]
          ELSE [updates EXCEPT !.pc = "get"]
    /\ UNCHANGED <<tasks, execs, response, cancelAccepted, streamVars, engineVars,
                   subscriberVars,
                   pushVars,
                   processorVars, sessionVars, _tasks, _task_updates,
                   _push_configs, _active_sessions, posts, raised, yielded>>

(* ------------- concurrent get_task_updates generators --------------- *)

\* what every action of a consumer leaves alone
subscriberFrame ==
    <<tasks, execs, response, cancelAccepted, streamVars, engineVars, pushVars,
      processorVars, sessionVars, _tasks, _push_configs, _active_sessions,
      posts, raised, updates, yielded>>

\* consumer s calls get_task_updates(task_id) and starts the generator:
\* ValueError for an id without an update queue, else on to `queue.get()`
\* on the one queue self._task_updates[task_id] of the task
subscribe(s, id) ==
    /\ subscribers[s].pc = "none"
    /\ subscribers' = [subscribers EXCEPT ![s] =
          IF id \notin DOMAIN _task_updates
          THEN [@ EXCEPT !.pc = "raised", !.id = id, !.error = "ValueError"]
          ELSE [@ EXCEPT !.pc = "get", !.id = id]]
    /\ UNCHANGED <<subscriberFrame, _task_updates>>

\* `update = await queue.get()` returns in the generator of consumer s: the
\* oldest queued update leaves the queue of the task and is yielded to s
subscriber_get(s) ==
    /\ subscribers[s].pc = "get"
    /\ _task_updates[subscribers[s].id] # <<>>
    /\ subscribers' = [subscribers EXCEPT ![s] =
          [@ EXCEPT !.pc = "yield",
                    !.yielded = Append(@, Head(_task_updates[subscribers[s].id]))]]
    /\ _task_updates' = [_task_updates EXCEPT ![subscribers[s].id] = Tail(@)]
    /\ UNCHANGED subscriberFrame

\* consumer s asks for the next update: its generator resumes after the
\* yield as in updates_resume
subscriber_resume(s) ==
    /\ subscribers[s].pc = "yield"
    /\ subscribers' = [subscribers EXCEPT ![s] =
          IF ~HasMember("CANCELED")
          THEN [@ EXCEPT !.pc = "raised", !.error = "AttributeError"]
          ELSE IF @.yielded[Len(@.yielded)].state \in {COMPLETED, FAILED, "canceled"}
          THEN [@ EXCEPT !.pc = "closed"]
          ELSE [@ EXCEPT !.pc = "get"]]
    /\ UNCHANGED <<subscriberFrame, _task_updates>>

(* ----------------- TaskProcessor.get_session_tasks ------------------ *)

\* TaskProcessor._get_session_context(session_id): self._active_sessions
\* with an entry for session_id, a new one with no task ids when there was
\* none (the timestamps of the entry are left out)
ActiveSessionsAfterGet(session_id) ==
    IF session_id \in DOMAIN _active_sessions
    THEN _active_sessions
    ELSE (session_id :> [tasks |-> <<>>]) @@ _active_sessions

\* TaskProcessor.get_session_tasks(session_id): the held tasks whose ids the
\* session entry lists, in the order of that list.  Ids are put on the list
\* by create_task only (lines 179-181), after the lines at which it raises.
get_session_tasks(session_id) ==
    /\ _active_sessions' = ActiveSessionsAfterGet(session_id)
    /\ LET listed == ActiveSessionsAfterGet(session_id)[session_id].tasks
           held(tid) == tid \in DOMAIN _tasks
       IN  raised' = [op |-> "get_session_tasks", id |-> 0, error |-> "none",
                      result |-> SelectSeq(listed, held)]
    /\ UNCHANGED <<tasks, execs, response, cancelAccepted, streamVars, engineVars,
                   subscriberVars,
                   pushVars,
                   processorVars, sessionVars, _tasks, _task_updates,
                   _push_configs, posts, updates, yielded>>

(* --------------------------- SessionManager --------------------------- *)

\* the clock of the sessions stops at MaxMinutes and advances by
\* MinutesPerTick at a time
MaxMinutes == 50
MinutesPerTick == 10

\* the longest task list of a session in a run of the model
MaxSessionTasks == 2

\* SessionManager(session_timeout=30): timedelta(minutes=30)
session_timeout == 30

\* the session ids callers of get_session ask for
SessionIdInputs == {"s1", "s2"}

\* the keywords _update_context looks for in the text of a message
Keywords == {"adventure", "romance", "action", "drama", "comedy"}

\* Session(session_id) at the current time
Session(session_id) ==
    [id |-> session_id,
     tasks |-> <<>>,
     last_activity |-> utcnow,
     context |-> [previous_scripts |-> <<>>, themes |-> {}, characters |-> {}]]

\* the test of _cleanup_expired_sessions with >= in place of >
expired_at_timeout(session) == utcnow - session.last_activity >= session_timeout

\* the test of _cleanup_expired_sessions on one session
expired(session) == utcnow - session.last_activity > session_timeout

\* the local expired_sessions of _cleanup_expired_sessions
ExpiredSessions == {x \in DOMAIN sessions : expired(sessions[x])}

\* SessionManager._cleanup_expired_sessions: self.sessions after the
\* deletion of every session listed in expired_sessions
cleanup_expired_sessions ==
    [sid \in DOMAIN sessions \ ExpiredSessions |-> sessions[sid]]

\* self.sessions when get_session(session_id) returns: cleaned up, and with
\* a new Session under session_id if there is none left
SessionsAfterGet(session_id) ==
    LET kept == cleanup_expired_sessions IN
    IF session_id \in DOMAIN kept
    THEN kept
    ELSE (session_id :> Session(session_id)) @@ kept

\* Session._update_context(message) on a session whose task list is
\* task_list: the keywords found in the text join the themes, and when a
\* task of the session is completed a summary of the text is appended
update_context(context, task_list, message) ==
    [context EXCEPT
        !.themes = @ \cup {k \in Keywords : \E i \in 1..Len(message) : message[i] = k},
        !.previous_scripts =
            IF \E i \in 1..Len(task_list) : tasks[task_list[i]].state = COMPLETED
            THEN Append(@, [timestamp |-> utcnow, summary |-> message])
            ELSE @]

\* Session.add_task(task): append the task, refresh last_activity, update
\* the context from the status message of the task
add_task(session, t) ==
    [session EXCEPT
        !.tasks = Append(@, t),
        !.last_activity = utcnow,
        !.context = update_context(@, Append(session.tasks, t), tasks[t].message)]

\* SessionManager.get_session(session_id)
get_session(session_id) ==
    /\ sessions' = SessionsAfterGet(session_id)
    /\ expired_sessions' = ExpiredSessions
    /\ UNCHANGED <<tasks, execs, response, cancelAccepted, streamVars, engineVars,
                   subscriberVars,
                   pushVars,
                   processorVars, utcnow, taskProcessorVars>>

\* SessionManager.add_task_to_session(task) for the stored task t: nothing
\* for a task without a session id, else get_session and Session.add_task
add_task_to_session(t) ==
    /\ t \in Stored
    /\ IF TruthyStr(tasks[t].sessionId)
       THEN LET session_id == tasks[t].sessionId[1]
                after_get == SessionsAfterGet(session_id)
            IN  /\ Len(after_get[session_id].tasks) < MaxSessionTasks
                /\ sessions' =
                      [after_get EXCEPT ![session_id] = add_task(@, t)]
                /\ expired_sessions' = ExpiredSessions
       ELSE UNCHANGED <<sessions, expired_sessions>>
    /\ UNCHANGED <<tasks, execs, response, cancelAccepted, streamVars, engineVars,
                   subscriberVars,
                   pushVars,
                   processorVars, utcnow, taskProcessorVars>>

\* time passes for the sessions
TickMinutes ==
    /\ utcnow + MinutesPerTick <= MaxMinutes
    /\ utcnow' = utcnow + MinutesPerTick
    /\ UNCHANGED <<tasks, execs, response, cancelAccepted, streamVars, engineVars,
                   subscriberVars,
                   pushVars,
                   processorVars, sessions, expired_sessions, taskProcessorVars>>

(* ----------------------------- SSE emitter ---------------------------- *)

\* `current_time - last_activity > 15` in event_stream
IdleWindow == 15

\* what _create_status_update_event renders: the artifacts go inline only in
\* a final event of a Completed task that has some
StatusUpdateEvent(task, final) ==
    [type |-> "status_update",
     state |-> task.state,
     final |-> final,
     artifacts |-> IF final /\ task.state = COMPLETED /\ task.artifacts # <<>>
                   THEN task.artifacts ELSE <<>>,
     message |-> task.message]

\* _create_artifact_event for artifact_index 0
ArtifactEvent(task) ==
    [type |-> "artifact", state |-> task.state, final |-> FALSE,
     artifacts |-> <<task.artifacts[1]>>, message |-> <<>>]

\* _create_error_event with the text of the task's status message
ErrorEvent(task) ==
    [type |-> "error", state |-> task.state, final |-> FALSE,
     artifacts |-> <<>>, message |-> task.message]

\* _create_keep_alive_event
KeepAliveEvent ==
    [type |-> "keepalive", state |-> "none", final |-> FALSE,
     artifacts |-> <<>>, message |-> <<>>]

\* the generator yields event e and suspends at position pc with locals s
Yield(s, pc, e) ==
    /\ events' = Append(events, e)
    /\ sub' = [s EXCEPT !.pc = pc]

\* LoopBody with a keep-alive branch that records the state it has found
LoopBody_keepalive_records_state(s) ==
    LET task == tasks[s.id]
        current_state == task.state
        state_changed == current_state # s.last_state
        s1 == IF state_changed
              THEN [s EXCEPT !.last_state = current_state, !.last_activity = now]
              ELSE s
    IN  IF now - s.last_activity > IdleWindow
        THEN Yield([s1 EXCEPT !.current_time = now], "keepalive_yield", KeepAliveEvent)
        ELSE IF state_changed /\ current_state = FAILED
        THEN Yield(s1, "error_yield", ErrorEvent(task))
        ELSE IF state_changed /\ current_state = CANCELLED
        THEN Yield(s1, "cancelled_yield", StatusUpdateEvent(task, TRUE))
        ELSE IF state_changed /\ current_state # COMPLETED
        THEN Yield(s1, "status_yield", StatusUpdateEvent(task, FALSE))
        ELSE IF current_state = COMPLETED /\ task.artifacts # <<>>
                /\ ~s.sent_final_update
        THEN Yield(s1, "artifact_yield", ArtifactEvent(task))
        ELSE /\ sub' = [s1 EXCEPT !.pc = "sleep"]
             /\ UNCHANGED events

\* one pass of `while True` from its top to the next yield or to the sleep,
\* with locals s.  self.tasks.get(task.id) always finds the task: nothing
\* removes an entry of A2AController.tasks, so the "Task not found" branch
\* is never taken.  The helpers that build the events raise nothing on a
\* stored task, so the generator's `except Exception` branch is not taken
\* either.
LoopBody(s) ==
    LET task == tasks[s.id]
        current_state == task.state
        state_changed == current_state # s.last_state
        s1 == IF state_changed
              THEN [s EXCEPT !.last_state = current_state, !.last_activity = now]
              ELSE s
    IN  IF now - s.last_activity > IdleWindow
        THEN Yield([s EXCEPT !.current_time = now], "keepalive_yield", KeepAliveEvent)
        ELSE IF state_changed /\ current_state = FAILED
        THEN Yield(s1, "error_yield", ErrorEvent(task))
        ELSE IF state_changed /\ current_state = CANCELLED
        THEN Yield(s1, "cancelled_yield", StatusUpdateEvent(task, TRUE))
        ELSE IF state_changed /\ current_state # COMPLETED
        THEN Yield(s1, "status_yield", StatusUpdateEvent(task, FALSE))
        ELSE IF current_state = COMPLETED /\ task.artifacts # <<>>
                /\ ~s.sent_final_update
        THEN Yield(s1, "artifact_yield", ArtifactEvent(task))
        ELSE /\ sub' = [s1 EXCEPT !.pc = "sleep"]
             /\ UNCHANGED events

\* POST /tasks/sendSubscribe and A2AController.send_task_streaming: the route
\* checks the parameters and builds the TaskRequest before it calls the
\* controller (a request that does not validate stores nothing); the
\* controller calls send_task and returns a StreamingResponse over a new
\* event_stream generator
send_task_streaming(req) ==
    /\ sub.pc = "none"
    /\ IF MissingParams(req)
       THEN /\ response' = [op |-> "create", code |-> 400, id |-> 0,
                            state |-> "none"]
            /\ UNCHANGED <<tasks, execs, cancelAccepted, sub>>
       ELSE IF ~TaskRequestValid(req)
       THEN /\ response' = [op |-> "create", code |-> 500, id |-> 0,
                            state |-> "none"]
            /\ UNCHANGED <<tasks, execs, cancelAccepted, sub>>
       ELSE /\ send_task(req)
            /\ sub' = [NoSub EXCEPT !.pc = "open", !.id = NewTaskId]
    /\ UNCHANGED <<now, events, auxVars>>

\* event_stream up to its first yield: the initial status update
stream_start ==
    /\ sub.pc = "open"
    /\ Yield(sub, "initial_yield", StatusUpdateEvent(tasks[sub.id], FALSE))
    /\ UNCHANGED <<tasks, execs, response, cancelAccepted, now, auxVars>>

\* after the initial yield: record last_state and last_activity, enter the
\* loop
stream_after_initial ==
    /\ sub.pc = "initial_yield"
    /\ LoopBody([sub EXCEPT !.last_state = tasks[sub.id].state,
                            !.last_activity = now])
    /\ UNCHANGED <<tasks, execs, response, cancelAccepted, now, auxVars>>

\* after the keep-alive yield: last_activity = current_time; continue
stream_after_keepalive ==
    /\ sub.pc = "keepalive_yield"
    /\ LoopBody([sub EXCEPT !.last_activity = sub.current_time,
                            !.current_time = 0])
    /\ UNCHANGED <<tasks, execs, response, cancelAccepted, now, auxVars>>

\* after a non-final status update: on to `await asyncio.sleep(0.5)`
stream_after_status ==
    /\ sub.pc = "status_yield"
    /\ sub' = [sub EXCEPT !.pc = "sleep"]
    /\ UNCHANGED <<tasks, execs, response, cancelAccepted, now, events, auxVars>>

\* the sleep is over: next pass of the loop
stream_wake ==
    /\ sub.pc = "sleep"
    /\ LoopBody(sub)
    /\ UNCHANGED <<tasks, execs, response, cancelAccepted, now, auxVars>>

\* after the artifact yield: the final status update of the stored task
stream_after_artifact ==
    /\ sub.pc = "artifact_yield"
    /\ Yield(sub, "final_yield", StatusUpdateEvent(tasks[sub.id], TRUE))
    /\ UNCHANGED <<tasks, execs, response, cancelAccepted, now, auxVars>>

\* the positions from which the generator breaks out of the loop
BreakPositions == {"error_yield", "cancelled_yield", "final_yield"}

\* stream_end without the break: the loop goes on to its sleep
stream_end_without_break ==
    /\ sub.pc \in BreakPositions
    /\ sub' = [sub EXCEPT !.pc = "sleep",
                          !.sent_final_update = (sub.pc # "error_yield")]
    /\ UNCHANGED <<tasks, execs, response, cancelAccepted, now, events, auxVars>>

\* after a terminal yield: break, the generator returns
stream_end ==
    /\ sub.pc \in BreakPositions
    /\ sub' = [sub EXCEPT !.pc = "closed",
                          !.sent_final_update = (sub.pc # "error_yield")]
    /\ UNCHANGED <<tasks, execs, response, cancelAccepted, now, events, auxVars>>

\* stream_disconnect with the executor of the task ended along with the
\* generator
stream_disconnect_stops_executor ==
    /\ sub.pc \notin {"none", "closed"}
    /\ sub' = [sub EXCEPT !.pc = "closed"]
    /\ execs' = [execs EXCEPT ![sub.id] = "done"]
    /\ UNCHANGED <<tasks, response, cancelAccepted, now, events, auxVars>>

\* the client goes away: the server closes the generator where it is
\* suspended (before its first step, at a yield or in the sleep); what is
\* thrown into it there is no Exception, so the except branch of
\* event_stream does not run and the generator ends without another event
stream_disconnect ==
    /\ sub.pc \notin {"none", "closed"}
    /\ sub' = [sub EXCEPT !.pc = "closed"]
    /\ UNCHANGED <<tasks, execs, response, cancelAccepted, now, events, auxVars>>

\* time passes
Tick ==
    /\ now + TickSeconds <= MaxTime
    /\ now' = now + TickSeconds
    /\ UNCHANGED <<tasks, execs, response, cancelAccepted, sub, events, auxVars>>

(* ---------------------------- specification --------------------------- *)

ExecutorStep ==
    \/ \E t \in Stored : process_task_start(t)
    \/ \E t \in Stored, result \in EngineResults : process_task_resume(t, result)

StreamStep ==
    \/ stream_start
    \/ stream_after_initial
    \/ stream_after_keepalive
    \/ stream_after_status
    \/ stream_wake
    \/ stream_after_artifact
    \/ stream_end

\* the task store under create, the executors and cancel
Next ==
    \/ \E req \in Requests : Cardinality(Stored) < MaxCreates /\ create_task(req)
    \/ ExecutorStep
    \/ \E id \in TaskIds : cancel_task(id)

Spec == Init /\ [][Next]_vars

\* the requests without a session that pass the check of the route; a
\* duration that is no integer makes send_task raise after it stored the task
LiveRequests == {r \in Requests : r.sessionId = None /\ ~MissingParams(r)}

\* creates, the executors and cancel of stored tasks
NextLive ==
    \/ \E req \in LiveRequests :
          Cardinality(Stored) < MaxCreates /\ create_task(req)
    \/ ExecutorStep
    \/ \E id \in Stored : cancel_task(id)

\* the event loop is fair to the executors, and every engine call returns or
\* raises
FairSpecLive == Init /\ [][NextLive]_vars /\ WF_vars(ExecutorStep)

\* requests that differ in their title
TitledRequests ==
    [title : {Some("T"), Some("U")}, tags : {Some(<<"a">>)}, idea : {Some("I")},
     sessionId : {None}, duration : {"int", "none"}]

\* the task store under creates with different titles
NextTitles ==
    \/ \E req \in TitledRequests :
          Cardinality(Stored) < MaxCreates /\ create_task(req)
    \/ ExecutorStep
    \/ \E id \in Stored : cancel_task(id)

SpecTitles == Init /\ [][NextTitles]_vars

\* the task store filled to its last id by accepted creates, for what depends
\* on more tasks than Spec creates
NextSessions ==
    \/ \E req \in WellFormedRequests : create_task(req)
    \/ ExecutorStep
    \/ \E id \in Stored : cancel_task(id)

SpecSessions == Init /\ [][NextSessions]_vars

\* one streamed task: its executor, cancel, its subscription and the clock
NextStream ==
    \/ \E req \in Requests : send_task_streaming(req)
    \/ ExecutorStep
    \/ \E id \in TaskIds : cancel_task(id)
    \/ StreamStep
    \/ Tick

SpecStream == Init /\ [][NextStream]_vars

\* the same with a client that can go away at any time
NextStreamDisconnect ==
    \/ NextStream
    \/ stream_disconnect

SpecStreamDisconnect == Init /\ [][NextStreamDisconnect]_vars

\* the event loop runs every ready coroutine: the executor and the generator
\* (whose consumer keeps reading) both get their turn
FairSpecStream ==
    SpecStream /\ WF_vars(ExecutorStep) /\ WF_vars(StreamStep)

\* the same with a client that never cancels
NextStreamNoCancel ==
    \/ \E req \in Requests : send_task_streaming(req)
    \/ ExecutorStep
    \/ StreamStep
    \/ Tick

FairSpecStreamNoCancel ==
    /\ Init /\ [][NextStreamNoCancel]_vars
    /\ WF_vars(ExecutorStep) /\ WF_vars(StreamStep)

\* the controller with its push-notification registry: creates (of tasks
\* without a session), and get, cancel and the two push-notification calls
\* on every id, stored or not.  The executors are left out: _process_task
\* reads and writes neither push_configs nor the keys of the task store.
NextPush ==
    \/ \E req \in WellFormedRequests :
          /\ req.sessionId = None
          /\ Cardinality(Stored) < MaxCreates
          /\ create_task(req)
    \/ \E id \in TaskIds : cancel_task(id)
    \/ \E id \in TaskIds : GetTask(id)
    \/ \E id \in TaskIds, config \in ConfigInputs : set_push_notification(id, config)
    \/ \E id \in TaskIds : GetPushNotification(id)

SpecPush == Init /\ [][NextPush]_vars

\* the SessionManager next to the task store: tasks of session "s1" are
\* created and run to Completed, callers add stored tasks to their sessions
\* and ask for sessions, and time passes
NextSessionManager ==
    \/ \E req \in WellFormedRequests :
          /\ req.sessionId = Some("s1")
          /\ Cardinality(Stored) < MaxCreates
          /\ create_task(req)
    \/ \E t \in Stored : process_task_start(t)
    \/ \E t \in Stored : process_task_resume(t, "script")
    \/ \E t \in Stored : add_task_to_session(t)
    \/ \E session_id \in SessionIdInputs : get_session(session_id)
    \/ TickMinutes

SpecSessionManager == Init /\ [][NextSessionManager]_vars

\* a TaskProcessor whose callers store tasks, register push configs, cancel
\* and run the executor, on every id, held or not, and list the tasks of
\* sessions
NextTaskProcessor ==
    \/ \E sessionId \in StoredSessionInputs, state \in StoredStateInputs :
          StoreTask(sessionId, state)
    \/ \E id \in TaskIds, config \in ConfigInputs :
          TaskProcessor_set_push_notification(id, config)
    \/ \E id \in TaskIds : TaskProcessor_cancel_task(id)
    \/ \E id \in TaskIds : process_task_async(id)
    \/ \E session_id \in SessionIdInputs : get_session_tasks(session_id)

SpecTaskProcessor == Init /\ [][NextTaskProcessor]_vars

\* a TaskProcessor whose callers store tasks, queue updates for them and
\* read the updates of one id, held or not, through get_task_updates
NextTaskUpdates ==
    \/ \E state \in StoredStateInputs : StoreTask(None, state)
    \/ \E id \in TaskIds, state \in UpdateStateInputs : PutUpdate(id, state)
    \/ \E id \in TaskIds : get_task_updates(id)
    \/ updates_get
    \/ updates_resume

SpecTaskUpdates == Init /\ [][NextTaskUpdates]_vars

\* the task store under creates, cancel and executors whose logging calls
\* can fail
NextLogging ==
    \/ \E req \in LiveRequests :
          Cardinality(Stored) < MaxCreates /\ create_task(req)
    \/ \E t \in Stored : process_task_start(t)
    \/ \E t \in Stored, result \in EngineResults, log \in LogOutcomes :
          process_task_resume_logging(t, result, log)
    \/ \E id \in Stored : cancel_task(id)

SpecLogging == Init /\ [][NextLogging]_vars

\* number of tasks created in a run of SpecRetries
MaxRetriedTasks == 2

\* the task store under creates of well-formed requests, cancel and
\* executors whose engine call is made attempt by attempt
NextRetries ==
    \/ \E req \in WellFormedRequests :
          /\ req.sessionId = None
          /\ Cardinality(Stored) < MaxRetriedTasks
          /\ create_task(req)
    \/ \E t \in Stored : process_task_start(t)
    \/ \E t \in Stored, outcome \in AttemptOutcomes :
          generate_script_attempt(t, outcome)
    \/ \E t \in Stored : process_task_resume_returned(t)
    \/ \E id \in Stored : cancel_task(id)

SpecRetries == Init /\ [][NextRetries]_vars

\* a TaskProcessor with stored tasks, updates put on their queues and two
\* consumers of task updates
NextSubscribers ==
    \/ \E state \in StoredStateInputs : StoreTask(None, state)
    \/ \E id \in DOMAIN _tasks, state \in UpdateStateInputs : PutUpdate(id, state)
    \/ \E s \in Subscribers, id \in TaskIds : subscribe(s, id)
    \/ \E s \in Subscribers : subscriber_get(s)
    \/ \E s \in Subscribers : subscriber_resume(s)

SpecSubscribers == Init /\ [][NextSubscribers]_vars

\* TaskProcessor.create_task applied to each of its arguments
InitProcessor ==
    /\ tasks = <<>>
    /\ execs = <<>>
    /\ response = NoResponse
    /\ cancelAccepted = {}
    /\ now = 0
    /\ sub = NoSub
    /\ events = <<>>
    /\ push_configs = <<>>
    /\ task_params \in ParamsInputs
    /\ created = NoResult
    /\ sessions = <<>>
    /\ expired_sessions = {}
    /\ utcnow = 0
    /\ _tasks = <<>>
    /\ _task_updates = <<>>
    /\ _push_configs = <<>>
    /\ _active_sessions = <<>>
    /\ posts = <<>>
    /\ raised = NoCall
    /\ updates = NoUpdates
    /\ yielded = <<>>
    /\ attempts = [t \in TaskIds |-> 0]
    /\ subscribers = [s \in Subscribers |-> NoSubscriber]

NextProcessor == TaskProcessor_create_task

SpecProcessor == InitProcessor /\ [][NextProcessor]_vars

\* a TaskProcessor whose caller calls create_task with one of the
\* arguments of ParamsInputs, stores tasks and runs the executor
NextOutputModes ==
    \/ TaskProcessor_create_task
    \/ \E state \in StoredStateInputs : StoreTask(None, state)
    \/ \E id \in TaskIds : process_task_async(id)

SpecOutputModes == InitProcessor /\ [][NextOutputModes]_vars

(* ------------------------------ properties ---------------------------- *)

\* the transitions of the task state machine
ValidTransitions ==
    {<<SUBMITTED, WORKING>>, <<WORKING, COMPLETED>>, <<WORKING, FAILED>>,
     <<SUBMITTED, CANCELLED>>, <<WORKING, CANCELLED>>}

\* C1: every change of a stored task's state is a transition of the state
\* machine: nothing leaves Completed, Failed or Cancelled and nothing
\* re-enters Submitted.
C1_StateMachine ==
    [][\A t \in Stored :
          tasks'[t].state # tasks[t].state
              => <<tasks[t].state, tasks'[t].state>> \in ValidTransitions]_vars

\* C2: cancelled wins: a task that is Cancelled while its engine call is in
\* flight is still reported Cancelled, without artifacts, by get_task after
\* any further step, whatever the engine call returns.
C2_CancelledWins ==
    [][\A t \in Stored :
          (tasks[t].state = CANCELLED /\ execs[t] = "engine")
              => /\ get_task(t)'.task[1].state = CANCELLED
                 /\ get_task(t)'.task[1].artifacts = <<>>]_vars

\* C3: whatever get_task or list_tasks returns, a task reported Completed
\* has at least one artifact.
C3_CompletedHasArtifact ==
    /\ \A id \in TaskIds :
          LET r == get_task(id) IN
          (r.code = 200 /\ r.task[1].state = COMPLETED)
              => Len(r.task[1].artifacts) >= 1
    /\ LET l == list_tasks(None, None) IN
       \A i \in 1..Len(l) : l[i].state = COMPLETED => Len(l[i].artifacts) >= 1

\* a stored task is Completed
C3_Witness == \E t \in Stored : tasks[t].state = COMPLETED

\* C4: cancel is accept-once: a cancel_task on a task for which an earlier
\* cancel_task succeeded answers 400, and a successful cancel_task returns the
\* task Cancelled.
C4_CancelAcceptOnce ==
    [][\A id \in TaskIds :
          cancel_task(id)
              => /\ id \in cancelAccepted => response'.code = 400
                 /\ response'.code = 200 => tasks'[id].state = CANCELLED]_vars

\* an event that ends a subscription: an error, or a final status update
IsTerminalEvent(e) ==
    e.type = "error" \/ (e.type = "status_update" /\ e.final)

\* C5: a subscription yields at most one terminal event and nothing after it.
C5_OneTerminalEvent ==
    \A i \in 1..Len(events) : IsTerminalEvent(events[i]) => i = Len(events)

\* the generator has returned after a terminal event that followed other
\* events, with time left on the clock for a keep-alive
C5_Witness ==
    /\ sub.pc = "closed"
    /\ Len(events) >= 2
    /\ IsTerminalEvent(events[Len(events)])
    /\ now - sub.last_activity > IdleWindow

\* the streamed task is Completed with its artifact attached
StreamedCompleted ==
    /\ sub.pc # "none"
    /\ tasks[sub.id].state = COMPLETED
    /\ tasks[sub.id].artifacts # <<>>

\* the subscription has ended with exactly one artifact event directly
\* followed by exactly one final Completed status update that carries the
\* artifacts
CompletedDelivered ==
    /\ sub.pc = "closed"
    /\ Len(events) >= 2
    /\ LET n == Len(events) IN
       /\ events[n - 1].type = "artifact"
       /\ events[n].type = "status_update"
       /\ events[n].final
       /\ events[n].state = COMPLETED
       /\ events[n].artifacts = tasks[sub.id].artifacts
       /\ \A i \in 1..n : events[i].type = "artifact" => i = n - 1
       /\ \A i \in 1..n : IsTerminalEvent(events[i]) => i = n

\* C6: when the streamed task reaches Completed with artifacts, its
\* subscription eventually yields one artifact event, then one final
\* Completed status update with the artifacts inline, and ends.
C6_CompletedIsDelivered == StreamedCompleted ~> CompletedDelivered

\* the streamed task is Failed
StreamedFailed == sub.pc # "none" /\ tasks[sub.id].state = FAILED

\* the subscription has ended with exactly one error event, its last event,
\* carrying the failure message of the task
FailureDelivered ==
    /\ sub.pc = "closed"
    /\ Len(events) >= 1
    /\ LET n == Len(events) IN
       /\ events[n].type = "error"
       /\ events[n].message = tasks[sub.id].message
       /\ \A i \in 1..n : events[i].type = "error" => i = n

\* C7: when the streamed task reaches Failed, its subscription eventually
\* yields one error event with the failure message and ends, whenever the
\* failure happened.
C7_FailureIsDelivered == StreamedFailed ~> FailureDelivered

\* C8: when create answers 200 the task it returns is new, stored, in state
\* Submitted, and its executor is scheduled but has not taken a step (so the
\* engine was not called for it).
C8_CreateReturnsSubmitted ==
    [][\A req \in Requests :
          (create_task(req) /\ response'.code = 200)
              => LET id == response'.id IN
                 /\ id \notin Stored
                 /\ response'.state = SUBMITTED
                 /\ tasks'[id].state = SUBMITTED
                 /\ execs'[id] = "scheduled"]_vars

\* create has just answered 200 and the task is still as it was returned
C8_Witness ==
    /\ response.op = "create"
    /\ response.code = 200
    /\ tasks[response.id].state = SUBMITTED
    /\ execs[response.id] = "scheduled"

\* C9: a create request without title, tags (or with empty tags) or idea is
\* answered 400 and changes neither the task store nor the scheduled
\* executors.
C9_RejectedCreateStoresNothing ==
    [][\A req \in Requests :
          (MissingParams(req) /\ create_task(req))
              => /\ response'.code = 400
                 /\ tasks' = tasks
                 /\ execs' = execs]_vars

\* a create was rejected while the store held a task
C9_Witness ==
    /\ response.op = "create"
    /\ response.code = 400
    /\ Stored # {}

\* the ids of the tasks in a list
IdsOf(l) == {l[i].id : i \in 1..Len(l)}

\* C10: two stored tasks created with the same session id have distinct ids,
\* and list_tasks with that session id returns both and no task created with
\* another session id or with none.
C10_SameSessionListing ==
    \A t1, t2 \in Stored :
        (t1 # t2 /\ tasks[t1].sessionId = tasks[t2].sessionId
                 /\ tasks[t1].sessionId # None)
            => LET s == tasks[t1].sessionId
                   l == list_tasks(s, None)
               IN  /\ tasks[t1].id # tasks[t2].id
                   /\ {tasks[t1].id, tasks[t2].id} \subseteq IdsOf(l)
                   /\ \A i \in 1..Len(l) : l[i].sessionId = s

\* C11: cancel_task on a stored task that is Completed, Failed or Cancelled
\* answers 400 ("Task already finished") and leaves every stored task,
\* that one included, exactly as it was.
C11_CancelFinishedRejected ==
    [][\A id \in Stored :
          (tasks[id].state \in Finished /\ cancel_task(id))
              => /\ response'.code = 400
                 /\ tasks' = tasks
                 /\ cancelAccepted' = cancelAccepted]_vars

\* cancel_task has just refused a task the executor had completed
C11_Witness ==
    /\ response.op = "cancel"
    /\ response.code = 400
    /\ response.id \in Stored
    /\ tasks[response.id].state = COMPLETED

StateInputs == {None, Some("")} \cup {Some(st) : st \in TaskState}

\* the stored tasks that have the session id (when one is given) and the
\* state (when one is given)
Matching(session_id, state) ==
    {t \in Stored :
        /\ session_id # None => tasks[t].sessionId = session_id
        /\ state # None => Some(tasks[t].state) = state}

\* C14: list_tasks(session_id, state) returns, once each, exactly the stored
\* tasks whose sessionId is session_id when one is given and whose state is
\* state when one is given: both filters when both are given, every task
\* when neither is.
C14_ListFilters ==
    \A session_id \in SessionInputs, state \in StateInputs :
        LET l == list_tasks(session_id, state) IN
        /\ IdsOf(l) = Matching(session_id, state)
        /\ Len(l) = Cardinality(Matching(session_id, state))

\* C15: TaskProcessor.create_task called with a list of requested output
\* modes fails with a validation error, storing nothing, if and only if no
\* requested mode is supported; otherwise it succeeds and selects the first
\* requested mode that is supported, also when the list holds unsupported
\* modes.
C15_OutputModeNegotiation ==
    (created # NoResult /\ task_params.kind = "dict" /\ task_params.modes # None)
        => LET accepted == task_params.modes[1]
               supported ==
                   {i \in 1..Len(accepted) : accepted[i] \in SUPPORTED_MODES}
           IN  IF supported = {}
               THEN /\ created.outcome \in {"ValidationError", "ValueError"}
                    /\ ~created.stored
               ELSE /\ created.outcome = "ok"
                    /\ created.stored
                    /\ created.mode =
                         accepted[CHOOSE i \in supported : \A j \in supported : i <= j]

C17_EveryTaskFinishes ==
    \A id \in TaskIds :
        (id \in Stored /\ execs[id] # "unscheduled")
            ~> [](id \in Stored /\ tasks[id].state \in Finished)

\* the executor of an accepted task has run to its end and left the task in
\* a terminal state
C17_Witness ==
    \E t \in Stored :
        /\ execs[t] = "done"
        /\ tasks[t].state \in {COMPLETED, FAILED}

\* C18: a Completed task has exactly one artifact, named with the title the
\* task was created with; the title of a stored task never changes.
C18_OneArtifactNamedTitle ==
    /\ [](\A t \in Stored :
            tasks[t].state = COMPLETED
                => /\ Len(tasks[t].artifacts) = 1
                   /\ tasks[t].artifacts[1] = tasks[t].title)
    /\ [][\A t \in Stored : tasks'[t].title = tasks[t].title]_vars

\* two tasks with different titles are Completed
C18_Witness ==
    \E t, u \in Stored :
        /\ tasks[t].title # tasks[u].title
        /\ tasks[t].state = COMPLETED
        /\ tasks[u].state = COMPLETED

\* while the engine call of some task is in flight, cancel_task and
\* get_task answer for every stored task, create_task answers, and every
\* other executor that is ready can take its step
NothingBlocked ==
    (\E t \in Stored : execs[t] = "engine")
        => /\ \A id \in Stored :
                /\ ENABLED cancel_task(id)
                /\ ENABLED GetTask(id)
           /\ \A req \in Requests :
                TaskIds \ Stored # {} => ENABLED create_task(req)
           /\ \A u \in Stored :
                /\ execs[u] = "scheduled" => ENABLED process_task_start(u)
                /\ execs[u] = "engine" =>
                      \A result \in EngineResults :
                          ENABLED process_task_resume(u, result)

\* C19: the engine call is a suspension point of the executor: an executor
\* finishes only in a later step than the one that started its engine call,
\* and while an engine call is in flight nothing is blocked by it.
C19_EngineCallDoesNotBlock ==
    /\ []NothingBlocked
    /\ [][\A t \in Stored : execs'[t] = "done" => execs[t] \in {"engine", "done"}]_vars

\* while the engine call of one task is in flight, another task was
\* created, run to its end and read
C19_Witness ==
    \E t, u \in Stored :
        /\ t < u
        /\ execs[t] = "engine"
        /\ execs[u] = "done"
        /\ tasks[u].state \in {COMPLETED, FAILED}

\* a session whose idle time since last_activity is over the timeout
IdleTooLong(sid) == utcnow - sessions[sid].last_activity > session_timeout

\* C20: a get_session call (directly, or through add_task_to_session)
\* removes every session that has been idle for longer than the timeout,
\* the requested one being replaced by a new empty session; it keeps every
\* other session with its task list, last_activity and context as they
\* were, apart from the task add_task_to_session adds to its own session;
\* and it leaves the task store unchanged.
C20_ExpiryRemovesOnlyIdleSessions ==
    [][\A asked \in SessionIdInputs :
          (\/ get_session(asked)
           \/ \E t \in Stored :
                 tasks[t].sessionId = Some(asked) /\ add_task_to_session(t))
              => /\ tasks' = tasks
                 /\ \A sid \in DOMAIN sessions :
                       IF IdleTooLong(sid)
                       THEN IF sid = asked
                            THEN /\ sid \in DOMAIN sessions'
                                 /\ Len(sessions'[sid].tasks) <= 1
                                 /\ sessions'[sid].last_activity = utcnow
                            ELSE sid \notin DOMAIN sessions'
                       ELSE /\ sid \in DOMAIN sessions'
                            /\ sid # asked => sessions'[sid] = sessions[sid]
                            /\ sid = asked =>
                                  \/ sessions'[sid] = sessions[sid]
                                  \/ \E t \in Stored :
                                        /\ sessions'[sid].tasks =
                                              Append(sessions[sid].tasks, t)
                                        /\ sessions'[sid].context.themes =
                                              sessions[sid].context.themes]_vars

\* a get_session call has removed an idle session and kept a session with a
\* task that is exactly at the timeout
C20_Witness ==
    /\ expired_sessions = {"s2"}
    /\ "s2" \notin DOMAIN sessions
    /\ "s1" \in DOMAIN sessions
    /\ Len(sessions["s1"].tasks) >= 1
    /\ utcnow - sessions["s1"].last_activity = session_timeout
    /\ Stored # {}

\* C21: a cancel_task on a held task that has not finished publishes one
\* update of the task, and with that update exactly one delivery is
\* attempted when a push config is registered for the task, and none
\* otherwise.
C21_OneDeliveryPerUpdate ==
    [][\A id \in DOMAIN _tasks :
          (_tasks[id].state \notin Finished /\ TaskProcessor_cancel_task(id))
              => Len(posts') =
                    Len(posts) + (IF id \in DOMAIN _push_configs THEN 1 ELSE 0)]_vars

\* C22: task ids are never reused: a create changes no record the store
\* already holds, and it adds a record exactly when it succeeds, so the
\* number of stored tasks is the number of successful creates and no task is
\* put back to Submitted.
C22_IdsNeverReused ==
    [][\A req \in Requests :
          create_task(req)
              => /\ \A t \in Stored : t \in Stored' /\ tasks'[t] = tasks[t]
                 /\ Cardinality(Stored') =
                       Cardinality(Stored) + (IF response'.code = 200 THEN 1 ELSE 0)]_vars

\* C23: TaskProcessor.cancel_task on a held task that has not finished ends
\* normally and returns the task with the same id, leaves it Cancelled with
\* an explanatory message, and puts exactly one update, whose state is
\* Cancelled, on the update queue of the task.
C23_ProcessorCancel ==
    [][\A id \in DOMAIN _tasks :
          (_tasks[id].state \notin Finished /\ TaskProcessor_cancel_task(id))
              => /\ raised'.error = "none"
                 /\ raised'.result = <<id>>
                 /\ _tasks'[id].id = id
                 /\ _tasks'[id].state = CANCELLED
                 /\ _tasks'[id].message # _tasks[id].message
                 /\ Len(_task_updates'[id]) = Len(_task_updates[id]) + 1
                 /\ _task_updates'[id][Len(_task_updates'[id])].state = CANCELLED]_vars

\* C24: get_task_updates fails only with the not-found error of an id it
\* does not know; for a known id it yields the queued updates oldest first,
\* yields nothing after an update whose state is Completed, Failed or
\* Cancelled, and ends only after such an update.
C24_UpdatesUntilTerminal ==
    /\ updates.pc = "raised" => updates.error = "ValueError"
    /\ \A i \in 1..(Len(yielded) - 1) : yielded[i].state \notin Finished
    /\ updates.pc = "closed" =>
          /\ Len(yielded) >= 1
          /\ yielded[Len(yielded)].state \in Finished

\* C25: a run of process_task_async on a held task, with an engine that
\* succeeds, ends normally, leaves the task Completed with the three
\* artifacts outline, script and thoughts in that order, and has published
\* updates of which the last is Completed.
C25_ProcessorRunCompletes ==
    [][\A id \in DOMAIN _tasks :
          process_task_async(id)
              => /\ raised'.error = "none"
                 /\ _tasks'[id].state = COMPLETED
                 /\ _tasks'[id].artifacts = <<"outline", "script", "thoughts">>
                 /\ Len(_task_updates'[id]) > Len(_task_updates[id])
                 /\ _task_updates'[id][Len(_task_updates'[id])].state = COMPLETED]_vars

\* the ids of the held tasks that have the session id, smallest (oldest)
\* first
RECURSIVE InCreationOrder(_)
InCreationOrder(ids) ==
    IF ids = {}
    THEN <<>>
    ELSE LET first == CHOOSE i \in ids : \A j \in ids : i <= j
         IN  <<first>> \o InCreationOrder(ids \ {first})

\* C26: get_session_tasks(s) returns exactly the held tasks whose sessionId
\* is s, oldest first: no task of another session and no task without a
\* session.
C26_SessionTasks ==
    [][\A session_id \in SessionIdInputs :
          get_session_tasks(session_id)
              => raised'.result =
                    InCreationOrder({t \in DOMAIN _tasks :
                                        _tasks[t].sessionId = Some(session_id)})]_vars

\* C27: the executor's Working write is applied only to a task whose stored
\* state is Submitted: once cancel_task has succeeded for a task whose
\* executor has not taken its first step, no step moves the task to Working
\* or starts the engine call for it.
C27_CancelledNeverStarted ==
    [][\A t \in Stored :
          /\ process_task_start(t) => tasks[t].state = SUBMITTED
          /\ (tasks[t].state = CANCELLED /\ execs[t] = "scheduled")
                => /\ tasks'[t].state # WORKING
                   /\ execs'[t] # "engine"]_vars

\* a final status update that reports Cancelled
IsFinalCancelled(e) ==
    e.type = "status_update" /\ e.final /\ e.state = CANCELLED

\* C28: a subscription whose task was cancelled while it was open has, when
\* it ends, yielded exactly one final status update that reports Cancelled,
\* as its last event.
C28_CancelledIsDelivered ==
    (sub.pc = "closed" /\ sub.id \in cancelAccepted)
        => /\ Len(events) >= 1
           /\ IsFinalCancelled(events[Len(events)])
           /\ \A i \in 1..Len(events) :
                 IsFinalCancelled(events[i]) => i = Len(events)

\* C29: every status update a subscription has yielded that reports
\* Completed, the initial one included, is final and carries a non-empty
\* list of artifacts.
C29_CompletedUpdateHasArtifacts ==
    \A i \in 1..Len(events) :
        (events[i].type = "status_update" /\ events[i].state = COMPLETED)
            => /\ events[i].final
               /\ events[i].artifacts # <<>>

\* C30: a run of the executor that has written Completed (its engine call
\* returned a script and the artifact was attached) leaves the task
\* Completed, whatever the completion logging that follows the write does.
C30_CompletedSurvivesLogging ==
    [][\A t \in Stored, log \in LogOutcomes :
          process_task_resume_logging(t, "script", log)
              => tasks'[t].state = COMPLETED]_vars


\* C31: the engine is attempted at most 3 times for a task.  The count of
\* its calls only grows, by one, and only while the engine call of the task
\* is open; after a call the retry loop goes on only if attempts remain, and
\* it gives up with RetryError only after the third call; once the call has
\* an outcome (a returned value or RetryError) the engine is not called for
\* the task again; the executor that resumes with RetryError writes Failed.
C31_BoundedRetries ==
    [][\A t \in Stored :
          /\ attempts'[t] <= 3
          /\ attempts'[t] \in {attempts[t], attempts[t] + 1}
          /\ attempts'[t] # attempts[t] =>
                /\ execs[t] = "engine"
                /\ execs'[t] = "engine" => attempts'[t] < 3
                /\ execs'[t] = Returned("raised") => attempts'[t] = 3
          /\ execs[t] \in {Returned(r) : r \in EngineResults} \cup {"done"} =>
                execs'[t] \notin {"scheduled", "engine"}
          /\ (execs[t] = Returned("raised") /\ execs'[t] # execs[t]) =>
                /\ execs'[t] = "done"
                /\ tasks'[t].state = FAILED
          /\ (execs[t] = "done" /\ attempts[t] = 3 /\ tasks[t].state = FAILED) =>
                /\ execs'[t] = "done"
                /\ tasks'[t].state = FAILED
      ]_vars

\* three failed attempts, and the task Failed with the error of the retries
C31_Witness ==
    \E t \in Stored :
        /\ execs[t] = "done"
        /\ attempts[t] = 3
        /\ tasks[t].state = FAILED
        /\ tasks[t].message = <<"Failed to generate script: ", "RetryError">>


IsPrefix(a, b) == Len(a) <= Len(b) /\ SubSeq(b, 1, Len(a)) = a

SummaryBound == MaxSessionTasks - 1

\* C34: the context of a session stays bounded: however many tasks were
\* added to a session, it stores at most N prior-script summaries.
C34_ContextBounded ==
    \A sid \in DOMAIN sessions :
        Len(sessions[sid].context.previous_scripts) <= SummaryBound


\* C35: two consumers of the updates of one task are independent.  An
\* update that one of them takes is not thereby taken away from the other,
\* which is waiting for the updates of the same task; and a consumer of a
\* held task ends only by closing after a terminal update it has received.
C35_IndependentSubscribers ==
    [][\A s \in Subscribers, t \in Subscribers :
          LET id == subscribers[s].id IN
          /\ (s # t /\ subscribers[s].pc = "get" /\ subscribers[t].pc = "get"
                /\ subscribers[t].id = id
                /\ subscribers'[s].yielded # subscribers[s].yielded) =>
                Len(_task_updates'[id]) >= Len(_task_updates[id])
          /\ (subscribers[s].pc = "yield" /\ subscribers'[s].pc # "yield") =>
                /\ subscribers'[s].pc \in {"get", "closed"}
                /\ subscribers'[s].pc = "closed" <=>
                      subscribers[s].yielded[Len(subscribers[s].yielded)].state
                         \in {COMPLETED, FAILED, CANCELLED}
      ]_vars


\* C36: the emitter never writes to the task store.  Every step of an open
\* subscription, its end by a terminal event and its end by a disconnect
\* included, leaves every task and every executor as it was; and once the
\* subscription has ended, the executor of its task can still take its
\* next step.
C36_EmitterWritesNothing ==
    [][/\ (sub.pc # "none" /\ sub' # sub) => (tasks' = tasks /\ execs' = execs)
       /\ (sub.pc = "closed" /\ execs[sub.id] = "scheduled") =>
             ENABLED process_task_start(sub.id)
       /\ (sub.pc = "closed" /\ execs[sub.id] = "engine") =>
             \A result \in EngineResults :
                ENABLED process_task_resume(sub.id, result)
      ]_vars

\* the client went away while the task was Working, and the executor has
\* completed the task since
C36_Witness ==
    /\ sub.pc = "closed"
    /\ ~sub.sent_final_update
    /\ events # <<>>
    /\ events[Len(events)].state = WORKING
    /\ execs[sub.id] = "done"
    /\ tasks[sub.id].state = COMPLETED
    /\ tasks[sub.id].artifacts # <<>>


\* the status_update events of the subscription, in the order of their yield
StatusUpdates ==
    LET is_status_update(e) == e.type = "status_update" IN
    SelectSeq(events, is_status_update)

\* the place of a state in the writes to one task: Submitted by create,
\* Working by the start of the executor, Completed or Failed by its end,
\* each of them written at most once
WriteRank(state) ==
    CASE state = SUBMITTED -> 1
      [] state = WORKING -> 2
      [] state \in {COMPLETED, FAILED} -> 3

\* C37: the status_update events of a subscription report the states of the
\* task in the order they were written, each written state at most once.
\* Submitted, Working and the state the executor ends with are each written
\* to a task once, in this order, so of two events that report such states
\* the later one reports a later write.  (Cancelled can be written more than
\* once, at any place among them; the emitter reports it again only after
\* it has seen another state in between.)
C37_ReportedInWriteOrder ==
    \A i \in 1..Len(StatusUpdates), j \in 1..Len(StatusUpdates) :
        (i < j /\ StatusUpdates[i].state # CANCELLED
               /\ StatusUpdates[j].state # CANCELLED) =>
           /\ StatusUpdates[i].state # StatusUpdates[j].state
           /\ WriteRank(StatusUpdates[i].state) <= WriteRank(StatusUpdates[j].state)


\* C38: the executor works in the output mode create negotiated.  For a
\* requested list that holds a supported mode, create accepts the task with
\* the first supported mode of the list; the executor takes that same mode
\* for the task, also when the list starts with an unsupported mode, and its
\* run ends normally with the task in a terminal state.
C38_ExecutorUsesNegotiatedMode ==
    (/\ created # NoResult
     /\ task_params.kind = "dict"
     /\ task_params.modes # None
     /\ \E i \in 1..Len(task_params.modes[1]) :
           task_params.modes[1][i] \in SUPPORTED_MODES
     /\ raised.op = "process_task_async"
     /\ raised.id \in DOMAIN _tasks)
        => LET accepted == task_params.modes[1] IN
           /\ created.outcome = "ok"
           /\ created.mode = NegotiateOutputMode(accepted).mode
           /\ ExecutorOutputMode(accepted).outcome = "ok"
           /\ ExecutorOutputMode(accepted).mode = created.mode
           /\ raised.error = "none"
           /\ _tasks[raised.id].state \in {COMPLETED, FAILED}


\* `last_activity` as the generator holds it: after a keep-alive it is the
\* current_time of the pass that sent the keep-alive
LastActivity ==
    IF sub.pc = "keepalive_yield" THEN sub.current_time ELSE sub.last_activity

\* the step appends exactly the keep-alive event
EmitsKeepAlive == events' = Append(events, KeepAliveEvent)

\* C39: keep-alives of an open subscription.  A pass of the loop that finds
\* more than the idle window (15 s) gone since the last recorded activity
\* emits a keep-alive; a keep-alive is emitted by such a pass only; emitting
\* it leaves the last reported state and the final flag as they were, so a
\* state change that was pending stays pending, and the pass that follows
\* within the idle window reports the state the task then has if it still
\* differs from the last reported one.
C39_KeepAlive ==
    [][/\ ((stream_wake \/ stream_after_keepalive)
              /\ now - LastActivity > IdleWindow) => EmitsKeepAlive
       /\ EmitsKeepAlive =>
             /\ sub.pc \in {"sleep", "keepalive_yield"}
             /\ now - LastActivity > IdleWindow
             /\ sub'.pc = "keepalive_yield"
             /\ sub'.last_state = sub.last_state
             /\ sub'.sent_final_update = sub.sent_final_update
             /\ tasks' = tasks
       /\ (stream_after_keepalive /\ now - LastActivity <= IdleWindow
              /\ tasks[sub.id].state # sub.last_state) =>
             /\ Len(events') = Len(events) + 1
             /\ events'[Len(events')].type # "keepalive"
             /\ events'[Len(events')].state = tasks[sub.id].state
      ]_vars

\* a keep-alive was sent while the task was Working, and the event right
\* after it reports the end of the task
C39_Witness ==
    \E i \in 1..Len(events) :
        /\ i > 1 /\ i < Len(events)
        /\ events[i] = KeepAliveEvent
        /\ events[i - 1].type = "status_update"
        /\ events[i - 1].state = WORKING
        /\ events[i + 1].state \in {COMPLETED, FAILED, CANCELLED}

=============================================================================
